---- MODULE Spec2Model ----
(***************************************************************************)
(* arxiv_monitor: the incremental fetch-and-merge pipeline.                *)
(*                                                                         *)
(*   Spec      one run of main(): paginated result stream, per-record     *)
(*             enrichment (code-URL lookup, document download, pacing),    *)
(*             incremental and final catalog merge, rendering, watermark.  *)
(*   SpecMerge update_json_file applied to every catalog file state and   *)
(*             every new_data of a small universe, twice in succession.    *)
(*   SpecId    the catalog key derived from a paper's short identifier.    *)
(***************************************************************************)
EXTENDS Integers, Sequences, FiniteSets, TLC

(***************************************************************************)
(* Program constants.                                                      *)
(***************************************************************************)
PAGE_SIZE == 100

DAILY_MAX_RESULTS == 50

CHECKPOINT_EVERY == 100

LOOKUP_MAX_ATTEMPTS == 5

DOWNLOAD_MAX_ATTEMPTS == 3

DEFAULT_WINDOW_DAYS == 7

SEED_WINDOW_DAYS == 1825

TOPIC == "Task Oriented Dialogue Systems"

(***************************************************************************)
(* Bounds of the model.                                                    *)
(***************************************************************************)
\* longest archive name of an old-style identifier (SpecId)
MaxArchiveLen == 2

\* number of distinct paper keys in the catalogs of SpecMerge
MaxKeys == 2

\* entries the faulty search API serves in one run, over all its pages (Spec)
MaxEntries == 2

\* matching papers served by the well-behaved search API (Spec)
BulkVolume == 250

\* the day of the run, as a day number
Today == 20000

(***************************************************************************)
(* Strings are sequences of one-character strings.                         *)
(***************************************************************************)
Letters == {"s", "v"}

Digits == {"1", "2"}

DigitChar(d) == CASE d = 0 -> "0" [] d = 1 -> "1" [] d = 2 -> "2" [] d = 3 -> "3"
                  [] d = 4 -> "4" [] d = 5 -> "5" [] d = 6 -> "6" [] d = 7 -> "7"
                  [] d = 8 -> "8" [] d = 9 -> "9"

RECURSIVE Decimal(_)
Decimal(n) == IF n < 10 THEN <<DigitChar(n)>>
              ELSE Decimal(n \div 10) \o <<DigitChar(n % 10)>>

\* str.split(sep)[0]: the text before the first occurrence of sep, the whole
\* string when sep does not occur.
RECURSIVE SplitFirst(_, _)
SplitFirst(s, sep) ==
    IF s = <<>> THEN <<>>
    ELSE IF Head(s) = sep THEN <<>>
    ELSE <<Head(s)>> \o SplitFirst(Tail(s), sep)

\* A mutant of PaperId: the identifier is used as the key unchanged.
PaperId_KeepVersion(short_id) == short_id

\* paper_id = result.get_short_id().split("v")[0]
PaperId(short_id) == SplitFirst(short_id, "v")

\* The short identifier arXiv gives version `version` of paper `base`.
ShortId(base, version) == base \o <<"v">> \o version

RECURSIVE SeqsUpTo(_, _)
SeqsUpTo(S, n) ==
    IF n = 0 THEN {<<>>}
    ELSE LET shorter == SeqsUpTo(S, n - 1)
         IN  shorter \cup {<<c>> \o s : c \in S, s \in {t \in shorter : Len(t) = n - 1}}

\* new-style bases (2101.00001) and old-style bases (archive/number)
NewStyleBases == {<<a, ".", b>> : a \in Digits, b \in Digits}

Archives == SeqsUpTo(Letters, MaxArchiveLen) \ {<<>>}

OldStyleBases == {ar \o <<"/", d>> : ar \in Archives, d \in Digits}

Bases == NewStyleBases \cup OldStyleBases

Versions == {<<d>> : d \in Digits}

(***************************************************************************)
(* Catalog values.  A Python dict is a function; a JSON text is a tagged   *)
(* tree: an object with members, or a value that is no object (a list, a   *)
(* string, null).  A catalog entry is one formatted table row.             *)
(***************************************************************************)
EmptyDict == [k \in {} |-> 0]

\* the two row templates of get_daily_papers, and a string that is no row
Row(paper_id, paper_repo_url) ==
    [paper_id |-> paper_id,
     fmt |-> IF paper_repo_url # "null" THEN "with_url" ELSE "null"]

NotARow(paper_id) == [paper_id |-> paper_id, fmt |-> "no_pipe"]

JsonObject(members) == [type |-> "object", members |-> members]

JsonOther == [type |-> "other", members |-> EmptyDict]

IsDict(v) == v.type = "object"

\* file states: absent, text that is no JSON (an empty file included), JSON text
AbsentFile == [kind |-> "absent", val |-> JsonOther]

InvalidFile == [kind |-> "invalid", val |-> JsonOther]

JsonFile(v) == [kind |-> "json", val |-> v]

\* lines 254-258: json.load, with FileNotFoundError and JSONDecodeError caught
LoadExisting(file) ==
    IF file.kind = "json" THEN file.val ELSE JsonObject(EmptyDict)

\* dict.update: keys of papers are added or overwritten, the others kept
DictUpdate(d, papers) ==
    [k \in DOMAIN d \cup DOMAIN papers |->
        IF k \in DOMAIN papers THEN papers[k] ELSE d[k]]

\* line 261 raises AttributeError when existing_data, or the value it holds
\* for a topic of new_data, has no setdefault/update method (is no dict)
MergeRaises(existing_data, new_data) ==
    \E topic \in DOMAIN new_data :
        \/ ~IsDict(existing_data)
        \/ /\ topic \in DOMAIN existing_data.members
           /\ ~IsDict(existing_data.members[topic])

\* existing_data.setdefault(topic, {})
SetDefault(existing_data, topic) ==
    IF topic \in DOMAIN existing_data.members
    THEN existing_data.members[topic].members
    ELSE EmptyDict

\* A mutant of MergeTopics: a topic of new_data replaces the existing topic.
MergeTopics_Replace(existing_data, new_data) ==
    IF DOMAIN new_data = {} THEN existing_data
    ELSE JsonObject(
        [topic \in DOMAIN existing_data.members \cup DOMAIN new_data |->
            IF topic \in DOMAIN new_data
            THEN JsonObject(new_data[topic])
            ELSE existing_data.members[topic]])

\* lines 260-261, when no topic raises
MergeTopics(existing_data, new_data) ==
    IF DOMAIN new_data = {} THEN existing_data
    ELSE JsonObject(
        [topic \in DOMAIN existing_data.members \cup DOMAIN new_data |->
            IF topic \in DOMAIN new_data
            THEN JsonObject(DictUpdate(SetDefault(existing_data, topic), new_data[topic]))
            ELSE existing_data.members[topic]])

\* A mutant of UpdateJsonFile: the file is opened for writing (truncated)
\* before the merge, so a merge that raises leaves an empty file.
UpdateJsonFile_OpenFirst(file, new_data) ==
    LET existing_data == LoadExisting(file)
    IN  IF MergeRaises(existing_data, new_data)
        THEN [file |-> InvalidFile, raised |-> "AttributeError"]
        ELSE [file |-> JsonFile(MergeTopics(existing_data, new_data)), raised |-> "none"]

\* update_json_file(filename, new_data): the file it leaves and what it raises
UpdateJsonFile(file, new_data) ==
    LET existing_data == LoadExisting(file)
    IN  IF MergeRaises(existing_data, new_data)
        THEN [file |-> file, raised |-> "AttributeError"]
        ELSE [file |-> JsonFile(MergeTopics(existing_data, new_data)), raised |-> "none"]

(***************************************************************************)
(* The universe of SpecMerge.                                              *)
(***************************************************************************)
Topics == {TOPIC, "Other Topic"}

Keys == {Decimal(n) : n \in 1..MaxKeys}

\* a repository URL the metadata API may know for a paper
CODE_URL == "https://github.com/x/y"

\* what fetch_code_url returns: a URL or the sentinel
RepoUrls == {CODE_URL, "null"}

RowsOf(k) == {Row(k, u) : u \in RepoUrls}

\* every dict from some keys to rows
PaperDicts ==
    UNION {{d \in [ks -> UNION {RowsOf(k) : k \in ks}] : \A k \in ks : d[k] \in RowsOf(k)}
           : ks \in SUBSET Keys}

\* every new_data of at most one topic (the shape the callers pass), and
\* those of two topics whose dicts are equal or of which one is empty
NewDatas ==
    {d \in UNION {[ts -> PaperDicts] : ts \in SUBSET Topics} :
        \A t1, t2 \in DOMAIN d :
            t1 = t2 \/ d[t1] = d[t2] \/ d[t1] = EmptyDict \/ d[t2] = EmptyDict}

TopicValues == {JsonObject(d) : d \in PaperDicts} \cup {JsonOther}

JsonValues == {JsonObject(m) : m \in UNION {[ts -> TopicValues] : ts \in SUBSET Topics}}
              \cup {JsonOther}

FileStates == {AbsentFile, InvalidFile} \cup {JsonFile(v) : v \in JsonValues}

\* a file that holds a catalog: topic -> (key -> row)
IsCatalogFile(file) ==
    /\ file.kind = "json"
    /\ IsDict(file.val)
    /\ \A t \in DOMAIN file.val.members : IsDict(file.val.members[t])

(***************************************************************************)
(* State.                                                                  *)
(***************************************************************************)
VARIABLES
    json_file,        \* the catalog file docs/arxiv-daily.json
    m_new_data,       \* SpecMerge: the new_data of the calls
    m_file0,          \* SpecMerge: the file before the first call
    m_after,          \* SpecMerge: per call, the file after it and what it raised
    call_pc,          \* SpecWrite, SpecRace: per call of update_json_file, its position
    call_new_data,    \* SpecWrite, SpecRace: per call, its new_data
    existing_data,    \* SpecWrite, SpecRace: per call, its local existing_data
    call_file0,       \* SpecWrite, SpecRace: the file before the calls
    call_log,         \* SpecWrite, SpecRace: the file operations, in order
    id_in,            \* SpecId: two papers, each a base and a version
    id_keys,          \* SpecId: their catalog keys, once derived
    pc,               \* Spec: where main() stands
    env,              \* Spec: "faulty" or "bulk" external services
    seed,             \* args.seed
    last_run_file,    \* the watermark file docs/last_run.txt
    last_run_file0,   \* the watermark file when the run started
    last_run_date,    \* the start date of the fetch window
    stream,           \* RobustClient.results: limit, offset, total_results, yielded,
                      \* the current page (page_len, idx), the fetches made, how
                      \* the last fetch went and the entry looked at last
    result,           \* the record the stream yielded last
    paper_id,
    paper_repo_url,
    new_papers_count,
    papers,
    attempts,         \* of the current record: lookup and download attempts,
                      \* 429 responses, pacing sleep done, file written
    processed,        \* records accumulated into papers so far
    accumulated,      \* the keys accumulated so far
    merge_log,        \* the update_json_file calls of the run
    progress,         \* fetched, rendered, watermark writes, a download given up
    raised            \* the exception that left main(), and the call it came from

mergeVars == <<m_new_data, m_file0, m_after>>

idVars == <<id_in, id_keys>>

callVars == <<call_pc, call_new_data, existing_data, call_file0, call_log>>

streamVars == <<stream, result>>

recordVars == <<paper_id, paper_repo_url, new_papers_count, papers, attempts,
                processed, accumulated>>

runVars == <<pc, env, seed, last_run_file, last_run_file0, last_run_date, streamVars,
             recordVars, merge_log, progress, raised>>

vars == <<json_file, mergeVars, idVars, callVars, callVars, runVars>>

NoEntry == [kind |-> "none", updated |-> 0]

NoStream == [limit |-> 0, offset |-> 0, total_results |-> 0, yielded |-> 0,
             page_len |-> 0, idx |-> 0, fetches |-> 0, last_fetch |-> "none",
             entry |-> NoEntry]

NoResult == [short_id |-> <<>>, updated |-> 0]

NoAttempts == [lookup |-> 0, rate_limited |-> 0, download |-> 0, last |-> "none",
               paced |-> FALSE, pdf_saved |-> FALSE]

NoProgress == [fetched |-> FALSE, rendered |-> FALSE, watermark_writes |-> 0,
               download_failed |-> FALSE]

NotRaised == [exc |-> "none", at |-> "none"]

NoWatermark == [exists |-> FALSE, date |-> 0]

MergeIdle == m_new_data = EmptyDict /\ m_file0 = AbsentFile /\ m_after = <<>>

IdIdle == id_in = <<>> /\ id_keys = <<>>

\* the processes that may call update_json_file on the same file
Procs == {1, 2}

CallIdle ==
    /\ call_pc = [p \in Procs |-> "absent"]
    /\ call_new_data = [p \in Procs |-> EmptyDict]
    /\ existing_data = [p \in Procs |-> JsonOther]
    /\ call_file0 = AbsentFile
    /\ call_log = <<>>

RunFresh ==
    /\ last_run_date = 0
    /\ stream = NoStream
    /\ result = NoResult
    /\ paper_id = <<>>
    /\ paper_repo_url = ""
    /\ new_papers_count = 0
    /\ papers = EmptyDict
    /\ attempts = NoAttempts
    /\ processed = 0
    /\ accumulated = {}
    /\ merge_log = <<>>
    /\ progress = NoProgress
    /\ raised = NotRaised

RunIdle ==
    /\ pc = "idle"
    /\ env = "none"
    /\ seed = FALSE
    /\ last_run_file = NoWatermark
    /\ last_run_file0 = NoWatermark
    /\ RunFresh

(***************************************************************************)
(* SpecId: the key of two papers.                                          *)
(***************************************************************************)
Papers == [base : Bases, version : Versions]

InitId ==
    /\ id_in \in {<<a, b>> : a \in Papers, b \in Papers}
    /\ id_keys = <<>>
    /\ json_file = AbsentFile
    /\ MergeIdle
    /\ CallIdle
    /\ RunIdle

\* lines 217-218 for each of the two results
DeriveKeys ==
    /\ id_keys = <<>>
    /\ id_keys' = [i \in 1..2 |-> PaperId(ShortId(id_in[i].base, id_in[i].version))]
    /\ UNCHANGED <<id_in, json_file, mergeVars, callVars, runVars>>

NextId == DeriveKeys

SpecId == InitId /\ [][NextId]_vars

(***************************************************************************)
(* SpecMerge: update_json_file called twice with the same new_data.        *)
(***************************************************************************)
InitMerge ==
    /\ json_file \in FileStates
    /\ m_new_data \in NewDatas
    /\ m_file0 = json_file
    /\ m_after = <<>>
    /\ IdIdle
    /\ CallIdle
    /\ RunIdle

MergeCall ==
    /\ Len(m_after) < 2
    /\ LET r == UpdateJsonFile(json_file, m_new_data)
       IN  /\ json_file' = r.file
           /\ m_after' = Append(m_after, r)
    /\ UNCHANGED <<m_new_data, m_file0, idVars, callVars, runVars>>

NextMerge == MergeCall

SpecMerge == InitMerge /\ [][NextMerge]_vars

(***************************************************************************)
(* Claims about the catalog merge (SpecMerge).                             *)
(***************************************************************************)
\* the (topic, key) pairs a JSON catalog holds
PairsOf(v) == {<<t, k>> : t \in DOMAIN v.members, k \in Keys} \cap
              {tk \in Topics \X Keys : /\ tk[1] \in DOMAIN v.members
                                       /\ tk[2] \in DOMAIN v.members[tk[1]].members}

NewPairs == {tk \in Topics \X Keys : /\ tk[1] \in DOMAIN m_new_data
                                     /\ tk[2] \in DOMAIN m_new_data[tk[1]]}

\* the JSON text of new_data alone
JsonOfNewData == JsonFile(JsonObject([t \in DOMAIN m_new_data |-> JsonObject(m_new_data[t])]))

\* C5: merging the same new_data a second time leaves the catalog file as the
\* first merge left it, whatever the file held before.
C5_MergeIdempotent ==
    Len(m_after) = 2 => m_after[2].file = m_after[1].file

\* C5 witness: both merges completed, on a catalog that shared a key with
\* new_data under a different row, so the first merge did change the file.
C5_Witness ==
    /\ Len(m_after) = 2
    /\ m_after[1].raised = "none" /\ m_after[2].raised = "none"
    /\ IsCatalogFile(m_file0)
    /\ m_after[1].file # m_file0
    /\ \E tk \in NewPairs \cap PairsOf(m_file0.val) :
           m_file0.val.members[tk[1]].members[tk[2]] # m_new_data[tk[1]][tk[2]]

\* C6: merging into a catalog (or an absent or unparseable file, which hold no
\* entry) completes; afterwards every (topic, key) of new_data maps to
\* new_data's row, every other (topic, key) of the old catalog and every old
\* topic is still there with its row unchanged, and nothing else was added.
C6_MergeIsUnion ==
    (Len(m_after) >= 1 /\ (IsCatalogFile(m_file0) \/ m_file0.kind # "json")) =>
        LET old == IF m_file0.kind = "json" THEN m_file0.val ELSE JsonObject(EmptyDict)
            new == m_after[1].file
        IN  /\ m_after[1].raised = "none"
            /\ IsCatalogFile(new)
            /\ DOMAIN new.val.members = DOMAIN old.members \cup DOMAIN m_new_data
            /\ PairsOf(new.val) = PairsOf(old) \cup NewPairs
            /\ \A tk \in NewPairs :
                   new.val.members[tk[1]].members[tk[2]] = m_new_data[tk[1]][tk[2]]
            /\ \A tk \in PairsOf(old) \ NewPairs :
                   new.val.members[tk[1]].members[tk[2]] = old.members[tk[1]].members[tk[2]]

\* C6 witness: the old catalog has a topic absent from new_data, a key of a
\* shared topic that new_data lacks, and a key new_data overwrites.
C6_Witness ==
    /\ Len(m_after) >= 1
    /\ IsCatalogFile(m_file0)
    /\ \E t \in DOMAIN m_file0.val.members : t \notin DOMAIN m_new_data
    /\ \E tk \in PairsOf(m_file0.val) \ NewPairs : tk[1] \in DOMAIN m_new_data
    /\ \E tk \in PairsOf(m_file0.val) \cap NewPairs :
           m_file0.val.members[tk[1]].members[tk[2]] # m_new_data[tk[1]][tk[2]]

\* C7: when the file is absent, unparseable, or parses to something that is
\* no topic -> (key -> row) object, the merge completes and leaves the file
\* equal to new_data.
C7_MergeNeverFailsOnFileState ==
    (Len(m_after) >= 1 /\ ~IsCatalogFile(m_file0)) =>
        /\ m_after[1].raised = "none"
        /\ m_after[1].file = JsonOfNewData

\* C7, the part the code keeps: an absent or unparseable file is merged into
\* as an empty catalog.
C7_AbsentOrInvalidIsEmpty ==
    (Len(m_after) >= 1 /\ m_file0.kind # "json") =>
        /\ m_after[1].raised = "none"
        /\ m_after[1].file = JsonOfNewData

(***************************************************************************)
(* Claims about the catalog key (SpecId).                                  *)
(***************************************************************************)
\* C8: the key of base + "v" + version is exactly base, and two papers with
\* different bases get different keys.
C8_KeyIsBase ==
    id_keys # <<>> =>
        /\ \A i \in 1..2 : id_keys[i] = id_in[i].base
        /\ (id_in[1].base # id_in[2].base => id_keys[1] # id_keys[2])

\* C8, the part the code keeps: a base without the letter v is the key.
C8_KeyIsBaseWithoutV ==
    id_keys # <<>> =>
        \A i \in 1..2 :
            (\A j \in 1..Len(id_in[i].base) : id_in[i].base[j] # "v")
                => id_keys[i] = id_in[i].base

(***************************************************************************)
(* Spec: one run of main().                                                *)
(*                                                                         *)
(* The external services are either "faulty" (every response of the search *)
(* API, the metadata API and the document source is chosen freely, on a    *)
(* small result set) or "bulk" (BulkVolume matching papers, served in full *)
(* pages without a fault).                                                 *)
(***************************************************************************)
\* the catalog files a run may start from
RunFileStates ==
    {AbsentFile, JsonFile(JsonOther),
     JsonFile(JsonObject(TOPIC :> JsonObject(<<"1">> :> Row(<<"1">>, CODE_URL)))),
     JsonFile(JsonObject(TOPIC :> JsonObject(<<"0">> :> NotARow(<<"0">>))))}

\* the short identifiers the faulty search API serves: two versions of one
\* paper and another paper
FaultyShortIds == {ShortId(<<"1">>, <<"1">>), ShortId(<<"1">>, <<"2">>),
                   ShortId(<<"2">>, <<"1">>)}

Init ==
    /\ pc = "main"
    /\ env \in {"faulty", "bulk"}
    /\ seed \in BOOLEAN
    /\ json_file \in RunFileStates
    /\ last_run_file \in {NoWatermark, [exists |-> TRUE, date |-> Today - 1]}
    /\ last_run_file0 = last_run_file
    /\ RunFresh
    /\ MergeIdle
    /\ IdIdle
    /\ CallIdle

\* get_last_run_date()
GetLastRunDate ==
    IF last_run_file.exists THEN last_run_file.date ELSE Today - DEFAULT_WINDOW_DAYS

\* main, lines 106-111, and get_daily_papers up to the call of client.results
MainStart ==
    /\ pc = "main"
    /\ last_run_date' = IF seed THEN Today - SEED_WINDOW_DAYS ELSE GetLastRunDate
    /\ pc' = "first_page"
    /\ UNCHANGED <<json_file, mergeVars, idVars, callVars, env, seed, last_run_file,
                   last_run_file0, streamVars, recordVars, merge_log, progress, raised>>

\* main() is left by an exception
Aborts(exc, at) ==
    /\ pc' = "aborted"
    /\ raised' = [exc |-> exc, at |-> at]

\* the generator is exhausted: get_daily_papers returns {topic: papers}
StreamEnds(st) ==
    /\ stream' = st
    /\ pc' = "final_merge"
    /\ progress' = [progress EXCEPT !.fetched = TRUE]
    /\ UNCHANGED raised

\* A mutant of FetchFails: the error of the fetch reaches the consumer.
FetchFails_Raises(st) ==
    /\ stream' = [st EXCEPT !.last_fetch = "error"]
    /\ Aborts("HTTPError", "results")
    /\ UNCHANGED progress

\* lines 142-144 and 183-187: arxiv.HTTPError or RequestException on a page
\* fetch is logged and the generator stops
FetchFails(st) == StreamEnds([st EXCEPT !.last_fetch = "error"])

\* A mutant of EmptyPage: the empty page is reported to the consumer.
EmptyPage_Raises(st) ==
    /\ stream' = [st EXCEPT !.last_fetch = "empty"]
    /\ Aborts("UnexpectedEmptyPageError", "results")
    /\ UNCHANGED progress

\* lines 146-148 (first page: return) and 179-181 (later page,
\* UnexpectedEmptyPageError: break): a page without entries stops the generator
EmptyPage(st) == StreamEnds([st EXCEPT !.last_fetch = "empty"])

\* the total-result counts the faulty search API reports: it may report more
\* than it ever serves
ReportedTotals == 0..(MaxEntries + 1)

\* search.max_results: None (falsy, written 0) when seeding, 50 otherwise
MaxResults(sd) == IF sd THEN 0 ELSE DAILY_MAX_RESULTS

\* results(), lines 135-155: the limit and the first page
FirstPage ==
    /\ pc = "first_page"
    /\ LET limit == IF MaxResults(seed) # 0 THEN MaxResults(seed) - stream.offset ELSE 0
           st == [stream EXCEPT !.limit = limit, !.fetches = 1]
       IN  \/ \* lines 136-137: a negative limit ends the stream before any fetch
              /\ limit # 0 /\ limit < 0
              /\ StreamEnds([stream EXCEPT !.limit = limit])
           \/ \* arxiv.HTTPError or RequestException: return
              /\ ~(limit # 0 /\ limit < 0)
              /\ env = "faulty"
              /\ FetchFails(st)
           \/ \E n \in 0..MaxEntries, t \in ReportedTotals :
                /\ ~(limit # 0 /\ limit < 0)
                /\ env = "faulty"
                /\ IF n = 0
                   THEN EmptyPage(st)
                   ELSE /\ stream' = [st EXCEPT !.page_len = n, !.idx = 0,
                                                 !.total_results = t, !.yielded = 0,
                                                 !.last_fetch = "page"]
                        /\ pc' = "entries"
                        /\ UNCHANGED <<progress, raised>>
           \/ /\ ~(limit # 0 /\ limit < 0)
              /\ env = "bulk"
              /\ stream' = [st EXCEPT !.page_len = IF BulkVolume < PAGE_SIZE
                                                    THEN BulkVolume ELSE PAGE_SIZE,
                                       !.idx = 0,
                                       !.total_results = BulkVolume, !.yielded = 0,
                                       !.last_fetch = "page"]
              /\ pc' = "entries"
              /\ UNCHANGED <<progress, raised>>
    /\ UNCHANGED <<json_file, mergeVars, idVars, callVars, env, seed, last_run_file,
                   last_run_file0, last_run_date, result, recordVars, merge_log>>

\* A mutant of Emits: the start date itself is excluded.
Emits_Exclusive(updated, start_date) == updated > start_date

\* line 161: the start-date filter
Emits(updated, start_date) == updated >= start_date

\* lines 157-166 for one entry of the page, and, when it is emitted, the
\* consumer's lines 218-224 up to the call of fetch_code_url
NextEntry ==
    /\ pc = "entries"
    /\ stream.idx < stream.page_len
    /\ \/ \* MissingFieldError: the entry is skipped
          /\ env = "faulty"
          /\ stream' = [stream EXCEPT !.idx = @ + 1,
                                      !.entry = [kind |-> "malformed", updated |-> 0]]
          /\ UNCHANGED <<pc, result, recordVars>>
       \/ \E short_id \in IF env = "faulty" THEN FaultyShortIds
                          ELSE {ShortId(Decimal(stream.offset + stream.idx + 1), <<"1">>)},
             updated \in IF env = "faulty" THEN {last_run_date - 1, last_run_date}
                         ELSE {last_run_date} :
            /\ stream' = [stream EXCEPT !.idx = @ + 1,
                                        !.entry = [kind |-> "well_formed",
                                                   updated |-> updated]]
            /\ IF Emits(updated, last_run_date)
               THEN /\ result' = [short_id |-> short_id, updated |-> updated]
                    /\ paper_id' = PaperId(short_id)
                    /\ new_papers_count' = new_papers_count + 1
                    /\ attempts' = NoAttempts
                    /\ paper_repo_url' = ""
                    /\ pc' = "lookup"
                    /\ UNCHANGED <<papers, processed, accumulated>>
               ELSE UNCHANGED <<pc, result, recordVars>>
    /\ UNCHANGED <<json_file, mergeVars, idVars, callVars, env, seed, last_run_file,
                   last_run_file0, last_run_date, merge_log, progress, raised>>

\* A mutant of CapReached: the cap is ignored.
CapReached_Never(limit, yielded) == FALSE

\* line 169: if limit and yielded >= limit
CapReached(limit, yielded) == limit # 0 /\ yielded >= limit

\* A mutant of TotalReached: the reported total is ignored.
TotalReached_Never(offset, total_results) == FALSE

\* line 171: if offset >= total_results
TotalReached(offset, total_results) == offset >= total_results

\* lines 168-187: the page is exhausted; stop, or fetch the next page
PageEnd ==
    /\ pc = "entries"
    /\ stream.idx = stream.page_len
    /\ LET offset == stream.offset + stream.page_len
           st == [stream EXCEPT !.offset = offset, !.entry = NoEntry]
           fetched == [st EXCEPT !.fetches = @ + 1]
       IN  IF CapReached(stream.limit, stream.yielded)
              \/ TotalReached(offset, stream.total_results)
           THEN StreamEnds(st)
           ELSE \/ \* arxiv.HTTPError or RequestException: break
                   /\ env = "faulty"
                   /\ FetchFails(fetched)
                \/ \* UnexpectedEmptyPageError: break
                   /\ env = "faulty"
                   /\ EmptyPage(fetched)
                \/ \E n \in 1..(MaxEntries - offset) :
                     /\ env = "faulty"
                     /\ stream' = [fetched EXCEPT !.page_len = n, !.idx = 0,
                                                  !.last_fetch = "page"]
                     /\ pc' = "entries"
                     /\ UNCHANGED <<progress, raised>>
                \/ /\ env = "bulk"
                   /\ stream' = [fetched EXCEPT
                                   !.page_len = IF BulkVolume - offset < PAGE_SIZE
                                                THEN BulkVolume - offset ELSE PAGE_SIZE,
                                   !.idx = 0, !.last_fetch = "page"]
                   /\ pc' = "entries"
                   /\ UNCHANGED <<progress, raised>>
    /\ UNCHANGED <<json_file, mergeVars, idVars, callVars, env, seed, last_run_file,
                   last_run_file0, last_run_date, result, recordVars, merge_log>>

LookupResponses == {"ok_with_url", "ok_without_url", "http_429", "http_error",
                    "network_error"}

\* A mutant of LookupStops: one attempt more is allowed.
LookupStops_Late(n) == n > LOOKUP_MAX_ATTEMPTS

\* the retry wrapper of fetch_code_url: stop_after_attempt(5)
LookupStops(n) == n >= LOOKUP_MAX_ATTEMPTS

\* one attempt of fetch_code_url, lines 61-81, under its retry wrapper,
\* lines 55-59 (a 429 sleeps Retry-After seconds when the header is present,
\* then raises RateLimitError in either case)
LookupAttempt ==
    /\ pc = "lookup"
    /\ \E response \in IF env = "faulty" THEN LookupResponses
                       ELSE IF new_papers_count % 2 = 0 THEN {"ok_with_url"}
                            ELSE {"ok_without_url"} :
         LET n == attempts.lookup + 1
         IN  CASE response = "ok_with_url" ->
                    /\ paper_repo_url' = CODE_URL
                    /\ attempts' = [attempts EXCEPT !.lookup = n, !.last = response]
                    /\ pc' = "looked_up"
                    /\ UNCHANGED raised
               [] response \in {"ok_without_url", "http_error", "network_error"} ->
                    /\ paper_repo_url' = "null"
                    /\ attempts' = [attempts EXCEPT !.lookup = n, !.last = response]
                    /\ pc' = "looked_up"
                    /\ UNCHANGED raised
               [] response = "http_429" ->
                    /\ attempts' = [attempts EXCEPT !.lookup = n, !.rate_limited = @ + 1,
                                                    !.last = response]
                    /\ UNCHANGED paper_repo_url
                    /\ IF LookupStops(n)
                       THEN Aborts("RetryError", "fetch_code_url")
                       ELSE UNCHANGED <<pc, raised>>
    /\ UNCHANGED <<json_file, mergeVars, idVars, callVars, env, seed, last_run_file,
                   last_run_file0, last_run_date, streamVars, paper_id, new_papers_count, papers,
                   processed, accumulated, merge_log, progress>>

\* line 225: fetch_code_url has returned; the state of its retry wrapper is
\* gone, and lines 227-229 call download_pdf
LookupReturns ==
    /\ pc = "looked_up"
    /\ attempts' = NoAttempts
    /\ pc' = "download"
    /\ UNCHANGED <<json_file, mergeVars, idVars, callVars, env, seed, last_run_file,
                   last_run_file0, last_run_date, streamVars, paper_id, paper_repo_url,
                   new_papers_count, papers, processed, accumulated, merge_log, progress, raised>>

DownloadResponses == {"pdf", "not_pdf", "error"}

\* A mutant of DownloadStops: one attempt more is allowed.
DownloadStops_Late(n) == n > DOWNLOAD_MAX_ATTEMPTS

\* the retry wrapper of download_pdf, line 84: stop_after_attempt(3)
DownloadStops(n) == n >= DOWNLOAD_MAX_ATTEMPTS

\* A mutant of SavesFile: the content type is not checked.
SavesFile_AnyType(response) == response \in {"pdf", "not_pdf"}

\* lines 103-108: the body is written only when the content type is
\* application/pdf
SavesFile(response) == response = "pdf"

\* one attempt of download_pdf, lines 92-123, under its retry wrapper, line 84;
\* get_daily_papers catches what the wrapper raises, lines 228-232
DownloadAttempt ==
    /\ pc = "download"
    /\ \E response \in IF env = "faulty" THEN DownloadResponses ELSE {"pdf"} :
         LET n == attempts.download + 1
         IN  IF response = "error"
             THEN \* requests.RequestException: logged and raised again, lines 121-123
                  /\ attempts' = [attempts EXCEPT !.download = n, !.last = response]
                  /\ IF DownloadStops(n)
                     THEN /\ pc' = "accumulate"
                          /\ progress' = [progress EXCEPT !.download_failed = TRUE]
                     ELSE UNCHANGED <<pc, progress>>
             ELSE \* the call returns; line 230 follows
                  /\ attempts' = [attempts EXCEPT !.download = n, !.last = response,
                                                  !.pdf_saved = SavesFile(response)]
                  /\ pc' = "sleep"
                  /\ UNCHANGED progress
    /\ UNCHANGED <<json_file, mergeVars, idVars, callVars, env, seed, last_run_file,
                   last_run_file0, last_run_date, streamVars, paper_id, paper_repo_url,
                   new_papers_count, papers, processed, accumulated, merge_log, raised>>

\* line 230: time.sleep(API_DELAY)
PacingSleep ==
    /\ pc = "sleep"
    /\ attempts' = [attempts EXCEPT !.paced = TRUE]
    /\ pc' = "accumulate"
    /\ UNCHANGED <<json_file, mergeVars, idVars, callVars, env, seed, last_run_file,
                   last_run_file0, last_run_date, streamVars, paper_id, paper_repo_url,
                   new_papers_count, papers, processed, accumulated, merge_log, progress, raised>>

\* A mutant of CheckpointDue: the seed flag is not consulted.
CheckpointDue_AnyMode(sd, count) == count % CHECKPOINT_EVERY = 0

\* line 242: if seed and new_papers_count % 100 == 0
CheckpointDue(sd, count) == sd /\ count % CHECKPOINT_EVERY = 0

\* one update_json_file call of the run, as the log keeps it
LogEntry(final, new_data, r, n_processed, keys) ==
    [final |-> final, new_data |-> new_data, count |-> new_papers_count,
     processed |-> n_processed, accumulated |-> keys, raised |-> r.raised]

\* the loop body is over: the generator resumes (line 164).  The record's
\* locals are dead from here on and are written as unset.
BodyEnds ==
    /\ stream' = [stream EXCEPT !.yielded = @ + 1]
    /\ pc' = "entries"
    /\ result' = NoResult
    /\ paper_id' = <<>>
    /\ paper_repo_url' = ""
    /\ attempts' = NoAttempts
    /\ UNCHANGED raised

\* lines 234-246: the entry is stored and the checkpoint is written when due
Accumulate ==
    /\ pc = "accumulate"
    /\ papers' = DictUpdate(papers, paper_id :> Row(paper_id, paper_repo_url))
    /\ processed' = processed + 1
    /\ accumulated' = accumulated \cup {paper_id}
    /\ IF CheckpointDue(seed, new_papers_count)
       THEN LET new_data == TOPIC :> papers'
                r == UpdateJsonFile(json_file, new_data)
            IN  /\ json_file' = r.file
                /\ merge_log' = Append(merge_log, LogEntry(FALSE, new_data, r, processed + 1,
                                                         accumulated \cup {paper_id}))
                /\ IF r.raised # "none"
                   THEN /\ Aborts(r.raised, "update_json_file")
                        /\ UNCHANGED <<stream, result, paper_id, paper_repo_url, attempts>>
                   ELSE BodyEnds
       ELSE /\ BodyEnds
            /\ UNCHANGED <<json_file, merge_log>>
    /\ UNCHANGED <<mergeVars, idVars, callVars, env, seed, last_run_file,
                   last_run_file0, last_run_date, new_papers_count, progress>>

\* main, line 117: the final merge of what get_daily_papers returned
FinalMerge ==
    /\ pc = "final_merge"
    /\ LET new_data == TOPIC :> papers
           r == UpdateJsonFile(json_file, new_data)
       IN  /\ json_file' = r.file
           /\ merge_log' = Append(merge_log, LogEntry(TRUE, new_data, r, processed, accumulated))
           /\ IF r.raised # "none"
              THEN Aborts(r.raised, "update_json_file")
              ELSE pc' = "render" /\ UNCHANGED raised
    /\ UNCHANGED <<mergeVars, idVars, callVars, env, seed, last_run_file,
                   last_run_file0, last_run_date, streamVars, recordVars, progress>>

\* json_to_md, lines 62-64: the sort key x.split("|")[1] of a value that holds
\* no "|" raises IndexError
RenderRaises(file) ==
    \E t \in DOMAIN file.val.members :
        \E k \in DOMAIN file.val.members[t].members :
            file.val.members[t].members[k].fmt = "no_pipe"

\* A mutant of Render: a rendering failure is swallowed and main goes on.
Render_IgnoreFailure ==
    /\ pc = "render"
    /\ IF RenderRaises(json_file)
       THEN pc' = "watermark" /\ UNCHANGED <<progress, raised>>
       ELSE /\ progress' = [progress EXCEPT !.rendered = TRUE]
            /\ pc' = "watermark"
            /\ UNCHANGED raised
    /\ UNCHANGED <<json_file, mergeVars, idVars, callVars, env, seed, last_run_file,
                   last_run_file0, last_run_date, streamVars, recordVars, merge_log>>

\* main, line 118: json_to_md(JSON_FILE, MD_FILE)
Render ==
    /\ pc = "render"
    /\ IF RenderRaises(json_file)
       THEN Aborts("IndexError", "json_to_md") /\ UNCHANGED progress
       ELSE /\ progress' = [progress EXCEPT !.rendered = TRUE]
            /\ pc' = "watermark"
            /\ UNCHANGED raised
    /\ UNCHANGED <<json_file, mergeVars, idVars, callVars, env, seed, last_run_file,
                   last_run_file0, last_run_date, streamVars, recordVars, merge_log>>

\* A mutant of UpdateLastRunDate: the watermark is left alone when the stream
\* was cut short by a failed or empty page.
UpdateLastRunDate_OnlyAfterFullStream ==
    /\ pc = "watermark"
    /\ IF stream.last_fetch \in {"error", "empty"}
       THEN UNCHANGED <<last_run_file, progress>>
       ELSE /\ last_run_file' = [exists |-> TRUE, date |-> Today]
            /\ progress' = [progress EXCEPT !.watermark_writes = @ + 1]
    /\ pc' = "done"
    /\ UNCHANGED <<json_file, mergeVars, idVars, callVars, env, seed, last_run_file0,
                   last_run_date, streamVars, recordVars, merge_log, raised>>

\* main, line 119: update_last_run_date()
UpdateLastRunDate ==
    /\ pc = "watermark"
    /\ last_run_file' = [exists |-> TRUE, date |-> Today]
    /\ progress' = [progress EXCEPT !.watermark_writes = @ + 1]
    /\ pc' = "done"
    /\ UNCHANGED <<json_file, mergeVars, idVars, callVars, env, seed, last_run_file0,
                   last_run_date, streamVars, recordVars, merge_log, raised>>

Next ==
    \/ MainStart
    \/ FirstPage
    \/ NextEntry
    \/ PageEnd
    \/ LookupAttempt
    \/ LookupReturns
    \/ DownloadAttempt
    \/ PacingSleep
    \/ Accumulate
    \/ FinalMerge
    \/ Render
    \/ UpdateLastRunDate

Spec == Init /\ [][Next]_vars

(***************************************************************************)
(* Claims about the run (Spec).                                            *)
(***************************************************************************)
IsIncremental(e) == ~e.final

IncrementalMerges == SelectSeq(merge_log, IsIncremental)

FinalMergeDone ==
    /\ merge_log # <<>>
    /\ merge_log[Len(merge_log)].final
    /\ merge_log[Len(merge_log)].raised = "none"

\* C1: the code-URL lookup never propagates a failure to get_daily_papers, and
\* a lookup whose 5 attempts were all answered 429 has returned "null".
C1_LookupNeverFails ==
    /\ raised.at # "fetch_code_url"
    /\ attempts.rate_limited = LOOKUP_MAX_ATTEMPTS =>
           (pc = "looked_up" /\ paper_repo_url = "null")

\* C2: no fault of the search API, the code-URL lookup or the document
\* download makes main() end before the final catalog merge: a run that was
\* aborted was aborted by the merge, the rendering or a later step.
C2_ServiceFaultsNeverAbort ==
    pc = "aborted" => raised.at \notin {"results", "fetch_code_url", "download_pdf"}

\* C3: without the seed flag the stream emits, and get_daily_papers
\* processes, at most 50 records in a run.
C3_IncrementalCap ==
    ~seed => (stream.yielded <= DAILY_MAX_RESULTS /\ new_papers_count <= DAILY_MAX_RESULTS)

\* C4: with the seed flag, the incremental merges made so far are one per
\* full hundred of accumulated records, the k-th made right after record
\* 100*k was accumulated and carrying every entry accumulated until then; a
\* final merge is the last call and carries every accumulated entry; without
\* the seed flag no merge precedes the final one.
C4_CheckpointEveryHundred ==
    LET inc == IncrementalMerges
    IN  /\ Len(inc) = IF seed THEN processed \div CHECKPOINT_EVERY ELSE 0
        /\ \A k \in 1..Len(inc) :
               /\ inc[k].processed = CHECKPOINT_EVERY * k
               /\ merge_log[k] = inc[k]
               /\ DOMAIN inc[k].new_data = {TOPIC}
               /\ DOMAIN inc[k].new_data[TOPIC] = inc[k].accumulated
        /\ \A i \in 1..Len(merge_log) :
               merge_log[i].final =>
                   /\ i = Len(merge_log)
                   /\ pc \notin {"entries", "lookup", "looked_up", "download", "sleep",
                                 "accumulate"}
                   /\ DOMAIN merge_log[i].new_data = {TOPIC}
                   /\ DOMAIN merge_log[i].new_data[TOPIC] = accumulated
                   /\ merge_log[i].new_data[TOPIC] = papers

\* C4 witness: a seed run over more than 200 records has ended with exactly
\* two incremental merges before its final merge.
C4_Witness ==
    /\ seed
    /\ pc = "done"
    /\ processed > 2 * CHECKPOINT_EVERY
    /\ processed < 3 * CHECKPOINT_EVERY
    /\ Len(IncrementalMerges) = 2
    /\ Len(merge_log) = 3
    /\ Cardinality(accumulated) = processed

\* C9: the watermark file is written at most once in a run, with today's
\* date, and only when the fetch, the final merge and the rendering are
\* done; until then, and in every aborted run, it is as the run found it.
C9_WatermarkAfterFullRun ==
    /\ progress.watermark_writes <= 1
    /\ progress.watermark_writes = 0 => last_run_file = last_run_file0
    /\ progress.watermark_writes = 1 =>
           /\ last_run_file = [exists |-> TRUE, date |-> Today]
           /\ pc = "done"
           /\ progress.fetched
           /\ FinalMergeDone
           /\ progress.rendered
    /\ pc = "aborted" => last_run_file = last_run_file0

\* C9 witness: a run that processed a record has written the watermark, and
\* the file differs from the one the run found.
C9_Witness ==
    /\ pc = "done"
    /\ progress.watermark_writes = 1
    /\ last_run_file # last_run_file0
    /\ processed >= 1

\* C10: when a record's entry is stored, the pacing sleep of that record has
\* been executed, whether its download returned or raised.
C10_PacingAfterEveryRecord ==
    pc = "accumulate" => attempts.paced

\* the consumer is inside the loop body of get_daily_papers, lines 218-246
InRecord == pc \in {"lookup", "looked_up", "download", "sleep", "accumulate"}

\* C11: a download whose every attempt raises is given up after at most 3
\* attempts, nothing of it reaches main, the record's entry is stored all the
\* same, and the stream is resumed for the next record.
C11_FailedDownloadIsAbsorbed ==
    /\ [](/\ attempts.download <= DOWNLOAD_MAX_ATTEMPTS
          /\ pc = "download" => attempts.download < DOWNLOAD_MAX_ATTEMPTS
          /\ raised.at # "download_pdf")
    /\ [][(pc = "download" /\ attempts'.last = "error")
            => /\ raised' = NotRaised
               /\ pc' = IF attempts'.download = DOWNLOAD_MAX_ATTEMPTS
                        THEN "accumulate" ELSE "download"]_vars
    /\ [][(pc = "accumulate" /\ attempts.last = "error")
            => /\ paper_id \in DOMAIN papers'
               /\ papers'[paper_id] = Row(paper_id, paper_repo_url)
               /\ processed' = processed + 1
               /\ pc' = "entries" \/ raised'.at = "update_json_file"]_vars

\* the run is complete: the download of one of its two records was given up
\* after 3 attempts, and both records have their entries in the dictionary
C11_Witness ==
    /\ pc = "done"
    /\ progress.download_failed
    /\ processed = 2
    /\ Cardinality(DOMAIN papers) = 2
    /\ raised = NotRaised

\* C12: a successful response that is not a PDF makes download_pdf return
\* without a file and without an exception; the request that got it is the last
\* request of the call (the only one when it answers the first attempt).
C12_NonPdfIsSkipped ==
    /\ []((pc \in {"sleep", "accumulate"} /\ attempts.last = "not_pdf")
            => ~attempts.pdf_saved /\ raised = NotRaised)
    /\ [][(pc = "download" /\ attempts'.last = "not_pdf")
            => /\ attempts'.download = attempts.download + 1
               /\ ~attempts'.pdf_saved
               /\ raised' = NotRaised
               /\ pc' = "sleep"]_vars
    /\ [][(pc \in {"sleep", "accumulate"} /\ attempts.last = "not_pdf")
            => attempts'.download \in {attempts.download, 0}]_vars

\* the first response was not a PDF: one request, no file, and the consumer
\* has gone on to line 230
C12_Witness ==
    /\ pc = "accumulate"
    /\ attempts.last = "not_pdf"
    /\ attempts.download = 1
    /\ attempts.paced
    /\ ~attempts.pdf_saved

(***************************************************************************)
(* update_json_file step by step, lines 252-264: one call that may be      *)
(* killed at any point (SpecWrite), and two concurrent calls on the same   *)
(* file (SpecRace).                                                        *)
(***************************************************************************)
\* what open(filename, "w") leaves, and a file that holds only a part of the
\* JSON text; json.load reads neither
TruncatedFile == [kind |-> "truncated", val |-> JsonOther]

PartialFile == [kind |-> "partial", val |-> JsonOther]

\* the new_data of a call: the topic with at most one entry
CallNewDatas == {TOPIC :> d : d \in {e \in PaperDicts : Cardinality(DOMAIN e) <= 1}}

\* the file before the calls: absent, no JSON, JSON that is no object, or a
\* catalog of the topic
CallFileStates ==
    {AbsentFile, InvalidFile, JsonFile(JsonOther)}
    \cup {JsonFile(JsonObject(TOPIC :> JsonObject(d))) : d \in PaperDicts}

Event(op, p) == [op |-> op, p |-> p]

\* the positions of the operations of process p in the log
EventsOf(op, p) == {i \in DOMAIN call_log : call_log[i] = Event(op, p)}

\* p has opened the file for writing
HasOpened(p) == EventsOf("open", p) # {}

\* between p's open and now, another process has opened or written the file
Overlapped(p) ==
    \E i \in EventsOf("open", p) :
        \E j \in DOMAIN call_log :
            j > i /\ call_log[j].p # p /\ call_log[j].op \in {"open", "dump", "close"}

\* lines 254-261: the file is read and new_data is merged into what was read
LoadAndUpdate ==
    \E p \in Procs :
        /\ call_pc[p] = "load"
        /\ LET loaded == LoadExisting(json_file)
           IN  IF MergeRaises(loaded, call_new_data[p])
               THEN /\ existing_data' = [existing_data EXCEPT ![p] = loaded]
                    /\ call_pc' = [call_pc EXCEPT ![p] = "raised"]
               ELSE /\ existing_data' = [existing_data EXCEPT
                                           ![p] = MergeTopics(loaded, call_new_data[p])]
                    /\ call_pc' = [call_pc EXCEPT ![p] = "open"]
        /\ call_log' = Append(call_log, Event("load", p))
        /\ UNCHANGED <<json_file, call_new_data, call_file0, mergeVars, idVars, runVars>>

\* A mutant of Truncated: the file is opened without being truncated.
Truncated_Kept(file) == file

\* line 263: open(filename, "w") truncates the file
Truncated(file) == TruncatedFile

\* A mutant of DataToWrite: the file is read again when it is opened, and
\* new_data is merged into what it holds by then.
DataToWrite_ReadAgain(p) == MergeTopics(LoadExisting(json_file), call_new_data[p])

\* lines 263-264 write the existing_data of lines 254-261: the file is not
\* read again
DataToWrite(p) == existing_data[p]

\* line 263: with open(filename, "w") as f
OpenForWrite ==
    \E p \in Procs :
        /\ call_pc[p] = "open"
        /\ existing_data' = [existing_data EXCEPT ![p] = DataToWrite(p)]
        /\ json_file' = Truncated(json_file)
        /\ call_pc' = [call_pc EXCEPT ![p] = "dump"]
        /\ call_log' = Append(call_log, Event("open", p))
        /\ UNCHANGED <<call_new_data, call_file0, mergeVars, idVars, runVars>>

\* line 264, json.dump under way: a part of the text has reached the file
DumpChunk ==
    \E p \in Procs :
        /\ call_pc[p] = "dump"
        /\ json_file' = PartialFile
        /\ call_pc' = [call_pc EXCEPT ![p] = "dumping"]
        /\ call_log' = Append(call_log, Event("dump", p))
        /\ UNCHANGED <<call_new_data, existing_data, call_file0, mergeVars, idVars, runVars>>

\* line 264 done and the file closed: the whole text is in the file, unless
\* another process has opened or written the file meanwhile; then the bytes of
\* the two texts may be mixed
CloseFile ==
    \E p \in Procs :
        /\ call_pc[p] \in {"dump", "dumping"}
        /\ \/ json_file' = JsonFile(existing_data[p])
           \/ Overlapped(p) /\ json_file' = PartialFile
        /\ call_pc' = [call_pc EXCEPT ![p] = "done"]
        /\ call_log' = Append(call_log, Event("close", p))
        /\ UNCHANGED <<call_new_data, existing_data, call_file0, mergeVars, idVars, runVars>>

\* the process is killed before update_json_file has returned
Kill ==
    \E p \in Procs :
        /\ call_pc[p] \in {"load", "open", "dump", "dumping"}
        /\ call_pc' = [call_pc EXCEPT ![p] = "killed"]
        /\ call_log' = Append(call_log, Event("kill", p))
        /\ UNCHANGED <<json_file, call_new_data, existing_data, call_file0, mergeVars,
                       idVars, runVars>>

InitWrite ==
    /\ json_file \in CallFileStates
    /\ call_file0 = json_file
    /\ call_pc = [p \in Procs |-> IF p = 1 THEN "load" ELSE "absent"]
    /\ \E d \in {TOPIC :> e : e \in PaperDicts} :
         call_new_data = [p \in Procs |-> IF p = 1 THEN d ELSE EmptyDict]
    /\ existing_data = [p \in Procs |-> JsonOther]
    /\ call_log = <<>>
    /\ MergeIdle
    /\ IdIdle
    /\ RunIdle

NextWrite ==
    \/ LoadAndUpdate
    \/ OpenForWrite
    \/ DumpChunk
    \/ CloseFile
    \/ Kill

SpecWrite == InitWrite /\ [][NextWrite]_vars

\* the keys the file holds under the topic
KeysOf(file) ==
    IF file.kind = "json" /\ IsDict(file.val) /\ TOPIC \in DOMAIN file.val.members
    THEN DOMAIN file.val.members[TOPIC].members
    ELSE {}

\* the files the two calls of SpecRace may find: at most one entry
RaceFileStates == {f \in CallFileStates : Cardinality(KeysOf(f)) <= 1}

InitRace ==
    /\ json_file \in RaceFileStates
    /\ call_file0 = json_file
    /\ call_pc = [p \in Procs |-> "load"]
    /\ call_new_data \in [Procs -> CallNewDatas]
    /\ existing_data = [p \in Procs |-> JsonOther]
    /\ call_log = <<>>
    /\ MergeIdle
    /\ IdIdle
    /\ RunIdle

NextRace ==
    \/ LoadAndUpdate
    \/ OpenForWrite
    \/ DumpChunk
    \/ CloseFile

SpecRace == InitRace /\ [][NextRace]_vars

\* what the one call of SpecWrite leaves when it completes
MergedFile == JsonFile(MergeTopics(LoadExisting(call_file0), call_new_data[1]))

\* C13: at every point of a merge, an interruption included, the file holds
\* the complete previous catalog or the complete merged catalog.
C13_RewriteIsAtomic == json_file = call_file0 \/ json_file = MergedFile

\* C13, amended: the file holds the previous content until it is opened for
\* writing and the merged catalog once the write is complete; from the open to
\* the end of the write, and for good when the call is killed in between, it is
\* empty or holds a part of the text.
C13_RewriteIsNotAtomic ==
    /\ ~HasOpened(1) => json_file = call_file0
    /\ call_pc[1] = "done" => json_file = MergedFile
    /\ (HasOpened(1) /\ call_pc[1] # "done") => json_file \in {TruncatedFile, PartialFile}

\* the call was killed after line 263 and before line 264 wrote anything: the
\* catalog, which held an entry, is an empty file
C13_Witness ==
    /\ call_pc[1] = "killed"
    /\ HasOpened(1)
    /\ json_file = TruncatedFile
    /\ call_file0.kind = "json"
    /\ IsDict(call_file0.val)
    /\ TOPIC \in DOMAIN call_file0.val.members
    /\ DOMAIN call_file0.val.members[TOPIC].members # {}

\* C14: the stream ends after finitely many page fetches.  The first fetch is
\* made at offset 0; every later fetch is made at an offset that is larger
\* than the offset of the fetch before it and smaller than the reported total,
\* so a stream makes at most max(1, total_results) fetches; and while the
\* stream is running, one of its steps can be taken.
C14_StreamTerminates ==
    /\ [](stream.fetches <= IF stream.total_results > 1 THEN stream.total_results ELSE 1)
    /\ [][stream'.fetches # stream.fetches
            => /\ stream'.fetches = stream.fetches + 1
               /\ IF stream.fetches = 0
                  THEN stream'.offset = 0
                  ELSE /\ stream'.offset > stream.offset
                       /\ stream'.offset < stream'.total_results]_vars
    /\ [](pc \in {"first_page", "entries"} => ENABLED (FirstPage \/ NextEntry \/ PageEnd))

\* the stream has ended on the reported total after a second fetch at a
\* larger offset
C14_Witness ==
    /\ pc = "final_merge"
    /\ stream.fetches = 2
    /\ stream.last_fetch = "page"
    /\ stream.offset = stream.total_results
    /\ stream.offset >= 2

\* the stream has ended and the generator is not resumed any more
StreamOver == pc \in {"final_merge", "render", "watermark", "done", "aborted"}

\* C15: after a page fetch that failed with a transport or API error the
\* stream is over: nothing is raised to the consumer and nothing of the stream
\* changes any more (no further fetch); when the first fetch failed no record
\* was emitted, and when a later one failed every record emitted before has been
\* processed and its entry is in the dictionary that get_daily_papers returns.
C15_FetchErrorEndsStream ==
    /\ [](stream.last_fetch = "error"
            => /\ StreamOver
               /\ progress.fetched
               /\ raised.at \notin {"results", "get_daily_papers", "fetch_code_url"}
               /\ stream.fetches = 1 => (new_papers_count = 0 /\ papers = EmptyDict)
               /\ processed = new_papers_count
               /\ processed = stream.yielded
               /\ accumulated = DOMAIN papers)
    /\ [][stream.last_fetch = "error" => stream' = stream /\ papers' = papers]_vars
    /\ [][(pc = "final_merge" /\ pc' # pc)
            => merge_log'[Len(merge_log')].new_data[TOPIC] = papers]_vars

\* the second fetch failed after a page whose record was emitted; the run has
\* merged the record's entry and is complete
C15_Witness ==
    /\ pc = "done"
    /\ stream.last_fetch = "error"
    /\ stream.fetches = 2
    /\ processed >= 1
    /\ json_file.kind = "json"
    /\ \A k \in accumulated : k \in DOMAIN json_file.val.members[TOPIC].members

\* C16: a page without entries ends the stream at any position: nothing is
\* raised to the consumer and no page is fetched after it; an empty first page
\* is the only fetch of the stream and no record is emitted.
C16_EmptyPageEndsStream ==
    /\ [](stream.last_fetch = "empty"
            => /\ StreamOver
               /\ progress.fetched
               /\ raised.at \notin {"results", "get_daily_papers", "fetch_code_url"}
               /\ stream.fetches = 1 => (stream.yielded = 0 /\ new_papers_count = 0)
               /\ stream.fetches > 1 => stream.offset < stream.total_results)
    /\ [][stream.last_fetch = "empty" => stream'.fetches = stream.fetches]_vars
    /\ [][(stream'.last_fetch = "empty" /\ stream.last_fetch # "empty")
            => /\ stream'.fetches = stream.fetches + 1
               /\ pc' = "final_merge"
               /\ papers' = papers]_vars

\* a later page came back empty although the reported total was not reached;
\* the run is complete
C16_Witness ==
    /\ pc = "done"
    /\ stream.last_fetch = "empty"
    /\ stream.fetches = 2
    /\ stream.offset < stream.total_results
    /\ processed >= 1

\* C17: a record is emitted exactly when its entry is well formed and its
\* updated date is on or after the start date; an entry that is malformed or
\* too old is passed over and the stream stays on the page; and the offset
\* moves by the length of the whole page, passed-over entries included.
C17_StartDateFilter ==
    /\ [](InRecord => /\ result.updated >= last_run_date
                      /\ stream.entry = [kind |-> "well_formed", updated |-> result.updated])
    /\ [][stream'.idx = stream.idx + 1
            => LET entry == stream'.entry
                   fresh == entry.kind = "well_formed" /\ entry.updated >= last_run_date
               IN  /\ entry.kind \in {"well_formed", "malformed"}
                   /\ fresh => /\ pc' = "lookup"
                               /\ result'.updated = entry.updated
                               /\ new_papers_count' = new_papers_count + 1
                   /\ ~fresh => /\ pc' = "entries"
                                /\ UNCHANGED <<result, recordVars, raised>>
                                /\ stream'.yielded = stream.yielded]_vars
    /\ [][stream'.offset # stream.offset
            => /\ stream.idx = stream.page_len
               /\ stream'.offset = stream.offset + stream.page_len]_vars

\* the second entry of the page carries the start date itself and is emitted
\* after the first entry, malformed or too old, was passed over
C17_Witness ==
    /\ pc = "lookup"
    /\ result.updated = last_run_date
    /\ stream.idx = 2
    /\ stream.offset = 0
    /\ new_papers_count = 1
    /\ stream.yielded = 0

\* C18: a lookup makes at most 5 requests and repeats a request only after a
\* 429: while it is running every earlier response was a 429 and fewer than 5
\* requests were made; a response that is an HTTP error other than 429 or a
\* network error ends it at once with the sentinel "null"; a 429 ends it only
\* as the 5th response.
C18_LookupRetriesOnlyOn429 ==
    /\ [](/\ attempts.lookup <= LOOKUP_MAX_ATTEMPTS
          /\ pc = "lookup" => /\ attempts.lookup < LOOKUP_MAX_ATTEMPTS
                              /\ attempts.rate_limited = attempts.lookup
          /\ pc = "looked_up" => /\ attempts.rate_limited = attempts.lookup - 1
                                 /\ attempts.last # "http_429"
          /\ (pc = "looked_up" /\ attempts.last \in {"http_error", "network_error"})
                => paper_repo_url = "null")
    /\ [][pc = "lookup"
            => /\ attempts'.lookup = attempts.lookup + 1
               /\ attempts'.last \in {"http_error", "network_error"}
                    => pc' = "looked_up" /\ paper_repo_url' = "null"
               /\ attempts'.last = "http_429"
                    => pc' = IF attempts'.lookup < LOOKUP_MAX_ATTEMPTS
                             THEN "lookup" ELSE "aborted"]_vars

\* after two 429 responses the third request met an HTTP error: the lookup
\* has returned "null" after 3 requests
C18_Witness ==
    /\ pc = "looked_up"
    /\ attempts.last = "http_error"
    /\ attempts.lookup = 3
    /\ attempts.rate_limited = 2
    /\ paper_repo_url = "null"

\* both calls have read the file before either has opened it for writing
BothReadBeforeEitherWrites ==
    \A p, q \in Procs :
        /\ EventsOf("load", p) # {}
        /\ \A i \in EventsOf("load", p), j \in EventsOf("open", q) : i < j

\* first has closed the file before last has opened it
WritesInTurn(first, last) ==
    /\ first # last
    /\ \E i \in EventsOf("close", first), j \in EventsOf("open", last) : i < j

\* C19: no lock is held between the read and the write: when both calls have
\* read the file before either writes it and they then write in turn, the file
\* is what the last writer made of its own read, and an entry that only the
\* first writer merged is not in it.
C19_LostUpdate ==
    \A first, last \in Procs :
        (/\ call_pc = [p \in Procs |-> "done"]
         /\ BothReadBeforeEitherWrites
         /\ WritesInTurn(first, last))
        => /\ json_file = JsonFile(MergeTopics(LoadExisting(call_file0),
                                               call_new_data[last]))
           /\ \A k \in DOMAIN call_new_data[first][TOPIC] :
                (k \notin KeysOf(call_file0) /\ k \notin DOMAIN call_new_data[last][TOPIC])
                    => k \notin KeysOf(json_file)

\* both calls are done, each merged an entry of its own, and the file lacks
\* the entry of the call that wrote first
C19_Witness ==
    \E first, last \in Procs :
        /\ call_pc = [p \in Procs |-> "done"]
        /\ BothReadBeforeEitherWrites
        /\ WritesInTurn(first, last)
        /\ json_file.kind = "json"
        /\ DOMAIN call_new_data[last][TOPIC] \subseteq KeysOf(json_file)
        /\ DOMAIN call_new_data[last][TOPIC] # {}
        /\ \E k \in DOMAIN call_new_data[first][TOPIC] : k \notin KeysOf(json_file)

\* C20: once get_daily_papers has returned, nothing of how the stream ended is
\* consulted: main fails in the merge or in the rendering exactly when the
\* catalog file makes them fail, and otherwise writes today's date as the
\* watermark, also after a failed first or later fetch, an empty page or a
\* stream without records; the next run then starts at today and emits no
\* record of the window that ended before today.
C20_WatermarkIgnoresStreamEnd ==
    /\ [](pc = "done" => /\ progress.fetched
                         /\ last_run_file = [exists |-> TRUE, date |-> Today]
                         /\ GetLastRunDate = Today
                         /\ \A updated \in {last_run_date, Today - 1} :
                              ~Emits(updated, GetLastRunDate))
    /\ [](pc \in {"final_merge", "render", "watermark"}
            => ENABLED (FinalMerge \/ Render \/ UpdateLastRunDate))
    /\ []((pc = "aborted" /\ progress.fetched)
            => raised.at \in {"update_json_file", "json_to_md"})
    /\ [][pc = "final_merge"
            => (pc' = "aborted" <=> MergeRaises(LoadExisting(json_file), TOPIC :> papers))]_vars
    /\ [][pc = "render" => (pc' = "aborted" <=> RenderRaises(json_file))]_vars
    /\ [][pc = "watermark"
            => last_run_file' = [exists |-> TRUE, date |-> Today] /\ pc' = "done"]_vars

\* the second fetch failed below the reported total, and the run has written
\* today's date over the watermark it found
C20_Witness ==
    /\ pc = "done"
    /\ stream.last_fetch = "error"
    /\ stream.fetches = 2
    /\ stream.offset < stream.total_results
    /\ last_run_file = [exists |-> TRUE, date |-> Today]
    /\ last_run_file0 = [exists |-> TRUE, date |-> Today - 1]

=============================================================================
